---- MODULE Spec2Model ----
(***************************************************************************)
(* CTAEB, the compile-time algebraic expression library: Constant,         *)
(* Variable and Compound (include/ctaeb/expression.h), the operators that  *)
(* build compounds (include/ctaeb/operations.h) and the evaluation of a    *)
(* built expression by Compound::operator() and detail::Invoker, and the   *)
(* text operator<< writes for an expression (include/ctaeb/print.h).       *)
(*                                                                         *)
(* The caller's expression objects live in `heap` (one slot per declared   *)
(* object, in declaration order).  A compound stores each nested           *)
(* expression in a tuple element whose type is the deduced template        *)
(* argument: a reference to the caller's object when the operand was an    *)
(* lvalue, a copy when it was a temporary.  An evaluation e(args...) is    *)
(* run as a stack of operator() activations, one frame per nested          *)
(* expression being evaluated.  A call that does not compile leaves no     *)
(* run behind: it is recorded as status "ill_formed".                      *)
(*                                                                         *)
(* A second thread evaluating the same objects is modelled by its          *)
(* evaluation set aside in `peer` and a Switch of the processor between    *)
(* any two steps.                                                          *)
(***************************************************************************)
EXTENDS Integers, Sequences, FiniteSets, TLC

\* ------------------------------------------------------------------ bounds
\* Number of expression objects the caller declares (two variables first).
MaxObjs == 4
\* Longest argument list passed to an evaluation.
MaxArgs == 2
\* Largest integer used as a literal or as a call-time argument.
MaxInt == 1
\* Number of expressions a program streams.
MaxLines == 2

\* ------------------------------------------------------------------ values
\* A run-time value: its C++ type and its payload.  bool carries 0 or 1.
IntV(n) == [t |-> "int", v |-> n]
BoolV(b) == [t |-> "bool", v |-> IF b THEN 1 ELSE 0]
\* example/overview2.cc: a user type with no operators and no conversion to bool.
UdtV == [t |-> "UDT", v |-> 0]
NoVal == [t |-> "none", v |-> 0]
Ill == "ill_formed"

Arithmetic(t) == t \in {"int", "bool"}
\* Contextual conversion to bool of an arithmetic value.
Truthy(val) == val.v # 0

\* Literals and call-time arguments the caller uses.
IntVals == {IntV(n) : n \in 0..MaxInt}
ArgVals == IntVals \cup {UdtV}
\* The literal the examples write as an operand: a + 1.
LitVals == {IntV(1)}
RECURSIVE SeqsUpTo(_, _)
SeqsUpTo(S, n) ==
    IF n = 0 THEN {<<>>}
    ELSE LET shorter == SeqsUpTo(S, n - 1)
         IN shorter \cup {Append(s, x) : s \in {q \in shorter : Len(q) = n - 1}, x \in S}
ArgLists == SeqsUpTo(ArgVals, MaxArgs)
Types(A) == [i \in 1..Len(A) |-> A[i].t]

\* ------------------------------------------------------------- expressions
NoNode == [kind |-> "None"]

\* std::to_string(N) for the indices the model declares, digit by digit.
Digit(d) == <<"0", "1", "2", "3", "4", "5", "6", "7", "8", "9">>[d + 1]
RECURSIVE to_string(_)
to_string(n) == IF n < 10 THEN Digit(n) ELSE to_string(n \div 10) \o Digit(n % 10)

\* Variable<N>::Variable(): name_ is "_" followed by N.
DefaultName(N) == "_" \o to_string(N)
\* Variable<N>(name) and Variable<N>().
Variable(N, name) ==
    [kind |-> "Variable", N |-> N, name |-> name, value |-> NoVal, op |-> "", kids |-> <<>>]
\* Constant<T>::Constant(const T &value): value_ is a copy of value.
Constant(value) ==
    [kind |-> "Constant", N |-> 0, name |-> "", value |-> value, op |-> "", kids |-> <<>>]
\* Compound<Op, Nested...>::Compound(const Nested &... nested): expressions_(nested...).
Compound(op, kids) ==
    [kind |-> "Compound", N |-> 0, name |-> "", value |-> NoVal, op |-> op, kids |-> kids]

\* int n = value;  an object of the caller that is not an expression.
Plain(value) ==
    [kind |-> "Plain", N |-> 0, name |-> "", value |-> value, op |-> "", kids |-> <<>>]
\* The value_ of a Constant<T&>: const T with T = int& is int&, bound by the
\* constructor's const T & (also int&) to the caller's object at address a.
BoundTo(a) == [t |-> "int&", v |-> a]
\* An expression object as its users read it: value_ of a Constant<T&> is the
\* caller's object, with the value that object has now.
Read(h, n) ==
    IF n.kind = "Constant" /\ n.value.t = "int&"
    THEN [n EXCEPT !.value = h[n.value.v].value]
    ELSE n

\* A tuple element of expressions_: a reference (Nested = X&) or an object (Nested = X).
RefSlot(a) == [ref |-> TRUE, addr |-> a, node |-> NoNode]
ValSlot(n) == [ref |-> FALSE, addr |-> 0, node |-> n]
\* std::get<I>(tuple): the expression a tuple element denotes.
Target(h, slot) == IF slot.ref THEN h[slot.addr] ELSE Read(h, slot.node)

\* The nested expression reached from n by following child indices p.
RECURSIVE NodeAt(_, _, _)
NodeAt(h, n, p) ==
    IF p = <<>> THEN n ELSE NodeAt(h, Target(h, n.kids[Head(p)]), Tail(p))

\* -------------------------------------------------------------- operations.h
\* operator- written with the operation of operator+.
OperatorTagMinusAsPlus(sym) ==
    CASE sym = "+" -> "plus"
      [] sym = "-" -> "plus"
      [] sym = "*" -> "multiplies"
      [] sym = "/" -> "divides"
      [] sym = "==" -> "equal_to"
      [] sym = "!=" -> "not_equal_to"
      [] sym = "<" -> "less"
      [] sym = "<=" -> "less_equal"
      [] sym = ">" -> "greater"
      [] sym = ">=" -> "greater_equal"
      [] sym = "&&" -> "logical_and"
      [] sym = "||" -> "logical_or"
\* operator<= written with the operation of operator<.
OperatorTagSlip(sym) ==
    CASE sym = "+" -> "plus"
      [] sym = "-" -> "minus"
      [] sym = "*" -> "multiplies"
      [] sym = "/" -> "divides"
      [] sym = "==" -> "equal_to"
      [] sym = "!=" -> "not_equal_to"
      [] sym = "<" -> "less"
      [] sym = "<=" -> "less"
      [] sym = ">" -> "greater"
      [] sym = ">=" -> "greater_equal"
      [] sym = "&&" -> "logical_and"
      [] sym = "||" -> "logical_or"
\* The operation each binary operator of operations.h puts into the compound.
OperatorTag(sym) ==
    CASE sym = "+" -> "plus"
      [] sym = "-" -> "minus"
      [] sym = "*" -> "multiplies"
      [] sym = "/" -> "divides"
      [] sym = "==" -> "equal_to"
      [] sym = "!=" -> "not_equal_to"
      [] sym = "<" -> "less"
      [] sym = "<=" -> "less_equal"
      [] sym = ">" -> "greater"
      [] sym = ">=" -> "greater_equal"
      [] sym = "&&" -> "logical_and"
      [] sym = "||" -> "logical_or"
BinarySyms == {"+", "-", "*", "/", "==", "!=", "<", "<=", ">", ">=", "&&", "||"}
\* operator!(E&&) and operator-(E&&).
UnaryTag(sym) ==
    CASE sym = "!" -> "logical_not"
      [] sym = "-" -> "negate"
UnarySyms == {"!", "-"}

\* An operand of an operator expression, as the caller writes it:
\*   lvalue  - a declared expression object (heap[addr]); E deduces to X&
\*   rvalue  - a temporary expression equal to heap[addr]; E deduces to X
\*   literal - a prvalue that is not an expression; T deduces to its type
\*   plain   - a declared object that is not an expression (heap[addr], whose
\*             value is now `value`); T deduces to a reference to its type
LvalueOperand(a) == [cat |-> "lvalue", addr |-> a, value |-> NoVal]
RvalueOperand(a) == [cat |-> "rvalue", addr |-> a, value |-> NoVal]
LiteralOperand(v) == [cat |-> "literal", addr |-> 0, value |-> v]
PlainOperand(a, v) == [cat |-> "plain", addr |-> a, value |-> v]
\* detail::is_expression<std::decay_t<T>>.
is_expression(x) == x.cat \in {"lvalue", "rvalue"}

\* What the compound's constructor stores for an operand: the tuple element of
\* type E (a reference for an lvalue, a copy for a temporary), or the
\* Constant<T> the literal converts to, or the Constant<T&> the caller's object
\* converts to.
Nested(h, x) ==
    CASE x.cat = "lvalue" -> RefSlot(x.addr)
      [] x.cat = "rvalue" -> ValSlot(h[x.addr])
      [] x.cat = "literal" -> ValSlot(Constant(x.value))
      [] x.cat = "plain" -> ValSlot(Constant(BoundTo(x.addr)))

\* The E1 op E2, E op T and T op E overloads of one binary operator.
BinaryOperator(h, sym, x, y) ==
    Compound(OperatorTag(sym), <<Nested(h, x), Nested(h, y)>>)
\* operator!(E&&) and operator-(E&&): Compound<Op, E>(x).
UnaryOperator(h, sym, x) ==
    Compound(UnaryTag(sym), <<Nested(h, x)>>)

\* ------------------------------------------------------ operation semantics
\* Operation<void> applied to the results of the nested expressions, for the
\* arithmetic types: the usual arithmetic conversions make bool an int.
\* std::divides is built by operator/ but is given no run-time meaning here
\* (integer division by zero is undefined); no evaluated expression uses it.
BinaryTags == {"plus", "minus", "multiplies", "equal_to", "not_equal_to", "less",
               "less_equal", "greater", "greater_equal", "logical_and", "logical_or"}
UnaryTags == {"logical_not", "negate"}
ApplyOp(op, rs) ==
    CASE op = "plus" -> IntV(rs[1].v + rs[2].v)
      [] op = "minus" -> IntV(rs[1].v - rs[2].v)
      [] op = "multiplies" -> IntV(rs[1].v * rs[2].v)
      [] op = "equal_to" -> BoolV(rs[1].v = rs[2].v)
      [] op = "not_equal_to" -> BoolV(rs[1].v # rs[2].v)
      [] op = "less" -> BoolV(rs[1].v < rs[2].v)
      [] op = "less_equal" -> BoolV(rs[1].v <= rs[2].v)
      [] op = "greater" -> BoolV(rs[1].v > rs[2].v)
      [] op = "greater_equal" -> BoolV(rs[1].v >= rs[2].v)
      [] op = "logical_and" -> BoolV(Truthy(rs[1]) /\ Truthy(rs[2]))
      [] op = "logical_or" -> BoolV(Truthy(rs[1]) \/ Truthy(rs[2]))
      [] op = "logical_not" -> BoolV(~Truthy(rs[1]))
      [] op = "negate" -> IntV(0 - rs[1].v)
      [] op = "CustomOperator" -> IF Truthy(rs[1]) THEN rs[2] ELSE rs[3]

\* An operation that takes a UDT operand beside an arithmetic one, as if the
\* other operand were converted to UDT.
OpTypeConverting(op, ts) ==
    IF /\ \/ op \in BinaryTags /\ Len(ts) = 2
          \/ op \in UnaryTags /\ Len(ts) = 1
       /\ \E i \in 1..Len(ts) : Arithmetic(ts[i])
    THEN IF op \in {"plus", "minus", "multiplies", "negate"} THEN "int" ELSE "bool"
    ELSE Ill
\* CustomOperator<void>()(bool condition, T &&s1, T &&s2) of
\* example/prefixed_operator.cc: three operands, the first converted to bool,
\* the other two deducing the same T, which is also the result.  (T is the
\* same only if s1 and s2 are also of one value category; the compounds of
\* CustomOperator that the model evaluates have Variables for both.)
CustomType(ts) ==
    IF Len(ts) = 3 /\ Arithmetic(ts[1]) /\ ts[2] = ts[3] THEN ts[2] ELSE Ill
\* decltype of Operation<void>()(r1, ..., rk): the call is well formed only for
\* the operation's own number of operands, all of arithmetic type.
OpType(op, ts) ==
    IF op = "CustomOperator" THEN CustomType(ts)
    ELSE IF /\ \/ op \in BinaryTags /\ Len(ts) = 2
               \/ op \in UnaryTags /\ Len(ts) = 1
            /\ \A i \in 1..Len(ts) : Arithmetic(ts[i])
    THEN IF op \in {"plus", "minus", "multiplies", "negate"} THEN "int" ELSE "bool"
    ELSE Ill

\* A Variable that yields an int when its argument is missing.
VariableTypeDefaults(N, T) == IF N <= Len(T) THEN T[N] ELSE "int"
\* Variable<N>::operator(): std::get<N - 1> of the argument tuple is ill formed
\* when the tuple has fewer than N elements.
VariableType(N, T) == IF N <= Len(T) THEN T[N] ELSE Ill

\* Lazy Invokers that take a tuple of any size and look at its first two
\* elements.
LazyTypeAnyArity(op, ts) ==
    IF Len(ts) >= 2 /\ Arithmetic(ts[1]) /\ Arithmetic(ts[2]) THEN "bool" ELSE Ill
\* Invoker<std::logical_and> and Invoker<std::logical_or> accept only
\* std::tuple<T1, T2>; both nested calls are instantiated, !res1 (res1) needs a
\* conversion to bool and operation(res1, res2) must be well formed.
LazyType(op, ts) ==
    IF Len(ts) = 2 /\ Arithmetic(ts[1]) THEN OpType(op, ts) ELSE Ill
\* The Invoker specialisation Compound<Op, ...>::invoker_ selects.
Lazy(op) == op \in {"logical_and", "logical_or"}
InvokerType(op, ts) == IF Lazy(op) THEN LazyType(op, ts) ELSE OpType(op, ts)

\* The type of n(args...) for arguments of types T, or Ill when the call does
\* not compile: every nested operator() is instantiated with the same Args.
RECURSIVE ResultType(_, _, _)
\* A lazy Invoker whose second nested call is looked at only when it runs: a
\* second operand that does not compile is let through.
ResultTypeUnchecked(h, n, T) ==
    CASE n.kind = "Constant" -> n.value.t
      [] n.kind = "Variable" -> VariableType(n.N, T)
      [] n.kind = "Compound" ->
            LET rs == [i \in 1..Len(n.kids) |-> ResultType(h, Target(h, n.kids[i]), T)]
                ts == [i \in 1..Len(n.kids) |->
                          IF Lazy(n.op) /\ i = 2 /\ rs[i] = Ill THEN "bool" ELSE rs[i]]
            IN IF \E i \in 1..Len(ts) : ts[i] = Ill THEN Ill ELSE InvokerType(n.op, ts)
ResultType(h, n, T) ==
    CASE n.kind = "Constant" -> n.value.t
      [] n.kind = "Variable" -> VariableType(n.N, T)
      [] n.kind = "Compound" ->
            LET ts == [i \in 1..Len(n.kids) |-> ResultType(h, Target(h, n.kids[i]), T)]
            IN IF \E i \in 1..Len(ts) : ts[i] = Ill THEN Ill ELSE InvokerType(n.op, ts)
Compiles(h, n, T) == ResultType(h, n, T) # Ill

\* ------------------------------------------------------------------ print.h
\* The operations print::to_string<Operation>() is specialised for: those of
\* print.h, "?:" and "^" of the examples, and "op" for OneParameter, a caller's
\* operation template <typename U> struct OneParameter whose parameter has no
\* default argument (Compound asks for Op<void> only).  The declaration of
\* line 43 has no definition, so any other operation leaves the program
\* unbuilt.
Registered ==
    {"plus", "multiplies", "divides", "minus", "negate", "equal_to", "not_equal_to",
     "less", "less_equal", "greater_equal", "greater", "logical_and", "logical_or",
     "logical_not", "unary_negate", "bit_xor", "CustomOperator", "XOR", "OneParameter"}
\* std::logical_not printed as C++ writes it.
print_to_stringBang(op) ==
    CASE op = "plus" -> "+"
      [] op = "multiplies" -> "*"
      [] op = "divides" -> "/"
      [] op = "minus" -> "-"
      [] op = "negate" -> "-"
      [] op = "equal_to" -> "=="
      [] op = "not_equal_to" -> "!="
      [] op = "less" -> "<"
      [] op = "less_equal" -> "<="
      [] op = "greater_equal" -> ">="
      [] op = "greater" -> ">"
      [] op = "logical_and" -> "&&"
      [] op = "logical_or" -> "||"
      [] op = "logical_not" -> "!"
      [] op = "unary_negate" -> "!"
      [] op = "bit_xor" -> "^"
      [] op = "CustomOperator" -> "?:"
      [] op = "XOR" -> "^"
      [] op = "OneParameter" -> "op"
      [] OTHER -> Ill
\* print::to_string<Operation>(): the string of the specialisation; for an
\* operation without one there is the declaration only, and no program.
print_to_string(op) ==
    CASE op = "plus" -> "+"
      [] op = "multiplies" -> "*"
      [] op = "divides" -> "/"
      [] op = "minus" -> "-"
      [] op = "negate" -> "-"
      [] op = "equal_to" -> "=="
      [] op = "not_equal_to" -> "!="
      [] op = "less" -> "<"
      [] op = "less_equal" -> "<="
      [] op = "greater_equal" -> ">="
      [] op = "greater" -> ">"
      [] op = "logical_and" -> "&&"
      [] op = "logical_or" -> "||"
      [] op = "logical_not" -> "not "
      [] op = "unary_negate" -> "not "
      [] op = "bit_xor" -> "^"
      [] op = "CustomOperator" -> "?:"
      [] op = "XOR" -> "^"
      [] op = "OneParameter" -> "op"
      [] OTHER -> Ill
\* print::prefixed<Op>::value: Op<> declares a member named prefixed.  Of the
\* operations above only CustomOperator of prefixed_operator.cc does.
prefixed(op) == op \in {"CustomOperator"}
\* T<> in print::prefixed<T>::type is a type: every parameter of the operation
\* template has a default argument, as those of <functional> and of the
\* examples have.
NoArguments(op) == op # "OneParameter"

\* std::ostream << int: decimal digits, a minus sign first when negative.
ValueText(val) ==
    IF val.v < 0 THEN "-" \o to_string(0 - val.v) ELSE to_string(val.v)
\* operator<<(os, const Constant<T>&): os << expr().
StreamConstant(n) == ValueText(n.value)
\* A Variable printed by its index whatever name it was given.
StreamVariableByIndex(n) == DefaultName(n.N)
\* operator<<(os, const Variable<N>&): os << expr.name().
StreamVariable(n) == n.name

\* print::emit: the element, then ", " unless it is the last one.
emit(text, last) == IF last THEN text ELSE text \o ", "
\* print::print: emit for every tuple element, in index order (a braced list).
RECURSIVE print_tuple(_, _)
print_tuple(ts, i) ==
    IF i > Len(ts) THEN ""
    ELSE emit(ts[i], i + 1 > Len(ts)) \o print_tuple(ts, i + 1)

\* The general overload written in infix form when there are operands enough.
StreamCompoundInfix(op, ts) ==
    IF prefixed(op) \/ Len(ts) < 2
    THEN print_to_string(op) \o "(" \o print_tuple(ts, 1) \o ")"
    ELSE ts[1] \o " " \o print_to_string(op) \o " " \o print_tuple(SubSeq(ts, 2, Len(ts)), 1)
\* operator<<(os, const Compound<Op, Ts...>&), ts the texts of Ts... in order.
StreamCompound(op, ts) ==
    print_to_string(op) \o "(" \o print_tuple(ts, 1) \o ")"
\* A unary operation always written as a call.
StreamUnaryCall(op, ts) == print_to_string(op) \o "(" \o ts[1] \o ")"
\* operator<<(os, const Compound<Op, T>&).
StreamUnary(op, ts) ==
    IF prefixed(op)
    THEN print_to_string(op) \o "(" \o ts[1] \o ")"
    ELSE print_to_string(op) \o ts[1]
\* The infix form written without the spaces around the symbol.
StreamBinaryTight(op, ts) ==
    IF prefixed(op)
    THEN print_to_string(op) \o "(" \o print_tuple(ts, 1) \o ")"
    ELSE ts[1] \o print_to_string(op) \o ts[2]
\* operator<<(os, const Compound<Op, T1, T2>&).
StreamBinary(op, ts) ==
    IF prefixed(op)
    THEN print_to_string(op) \o "(" \o print_tuple(ts, 1) \o ")"
    ELSE ts[1] \o " " \o print_to_string(op) \o " " \o ts[2]

\* os << e: the overload of operator<< the type of e selects; the most
\* specialised of the three Compound overloads is the one with its arity.
RECURSIVE Stream(_, _)
Stream(h, n) ==
    CASE n.kind = "Constant" -> StreamConstant(n)
      [] n.kind = "Variable" -> StreamVariable(n)
      [] n.kind = "Compound" ->
            LET ts == [i \in 1..Len(n.kids) |-> Stream(h, Target(h, n.kids[i]))]
            IN CASE Len(ts) = 1 -> StreamUnary(n.op, ts)
                 [] Len(ts) = 2 -> StreamBinary(n.op, ts)
                 [] OTHER -> StreamCompound(n.op, ts)

\* The program with os << e builds: every operator<< instantiated for e, that
\* of each nested compound included, calls a to_string<Op>() that is defined,
\* and the one- and two-operand overloads instantiate prefixed<Op>.
RECURSIVE Links(_, _)
Links(h, n) ==
    n.kind = "Compound" =>
        /\ n.op \in Registered
        /\ Len(n.kids) \in {1, 2} => NoArguments(n.op)
        /\ \A i \in 1..Len(n.kids) : Links(h, Target(h, n.kids[i]))

\* -------------------------------------------------------------------- state
VARIABLES
    heap,      \* the caller's expression objects, by address 1..Len(heap)
    built,     \* the operator expression that created the newest compound
    callee,    \* address of the expression being (or last) evaluated
    args,      \* the argument list of that evaluation
    status,    \* "idle", "running", "done", or "ill_formed" (does not compile)
    stack,     \* operator() activations, outermost first
    entered,   \* the nested expressions whose operator() was entered, in order
    rets,      \* what each finished operator() returned, by path
    result,    \* the value the evaluation returned to the caller
    first,     \* an earlier finished evaluation, kept for comparison
    out,       \* the os << e statements so far: the object, whether the
               \* program built, and the text written
    peer       \* the evaluation of a second thread that is not on the
               \* processor: its callee, args, status, stack, entered, rets
               \* and result
vars == <<heap, built, callee, args, status, stack, entered, rets, result, first, out, peer>>

NoBuild ==
    [sym |-> "", arity |-> 0, addr |-> 0,
     x |-> LiteralOperand(NoVal), y |-> LiteralOperand(NoVal)]
NoRets == [p \in {} |-> NoVal]
NoFirst ==
    [addr |-> 0, tree |-> NoNode, args |-> <<>>, result |-> NoVal,
     rets |-> NoRets, lines |-> 0]
\* A thread that has evaluated nothing yet.
NoThread ==
    [callee |-> 0, args |-> <<>>, status |-> "idle", stack |-> <<>>,
     entered |-> <<>>, rets |-> NoRets, result |-> NoVal]

\* The caller declares Variable<1> x("x") and Variable<2> with its default name.
Init ==
    /\ heap = <<Variable(1, "x"), Variable(2, DefaultName(2))>>
    /\ built = NoBuild
    /\ callee = 0
    /\ args = <<>>
    /\ status = "idle"
    /\ stack = <<>>
    /\ entered = <<>>
    /\ rets = NoRets
    /\ result = NoVal
    /\ first = NoFirst
    /\ out = <<>>
    /\ peer = NoThread

\* Operands the caller can write: a declared expression, a temporary equal to
\* a declared compound (a nested operator expression), an int literal, or a
\* declared int.
ExprOperands ==
    {LvalueOperand(a) : a \in {b \in 1..Len(heap) : heap[b].kind # "Plain"}}
        \cup {RvalueOperand(a) : a \in {b \in 1..Len(heap) : heap[b].kind = "Compound"}}
Operands ==
    ExprOperands
        \cup {LiteralOperand(v) : v \in LitVals}
        \cup {PlainOperand(a, heap[a].value) : a \in {b \in 1..Len(heap) : heap[b].kind = "Plain"}}

Forget ==
    /\ callee' = 0
    /\ args' = <<>>
    /\ status' = "idle"
    /\ stack' = <<>>
    /\ entered' = <<>>
    /\ rets' = NoRets
    /\ result' = NoVal

\* Constant<int> c(v);  or  Variable<1> _1;  another declared object.
Declarable == {Constant(v) : v \in IntVals} \cup {Variable(1, DefaultName(1))}
Declare ==
    /\ status # "running"
    /\ Len(heap) < MaxObjs
    /\ \E n \in Declarable : heap' = Append(heap, n)
    /\ Forget
    /\ UNCHANGED <<built, first, out, peer>>

\* int n = v;  a declared object that is not an expression.
DeclarePlain ==
    /\ status # "running"
    /\ Len(heap) < MaxObjs
    /\ \E v \in IntVals : heap' = Append(heap, Plain(v))
    /\ Forget
    /\ UNCHANGED <<built, first, out, peer>>

\* n = v;  the caller changes a declared int.
Assign ==
    /\ status # "running"
    /\ \E a \in 1..Len(heap), v \in IntVals :
        /\ heap[a].kind = "Plain"
        /\ heap[a].value # v
        /\ heap' = [heap EXCEPT ![a].value = v]
    /\ Forget
    /\ UNCHANGED <<built, first, out, peer>>

\* auto e = x sym y;  at least one operand is an expression (Expressions<E1, E2>,
\* or Expression<E> with NonExpression<T>).
BuildBinary(syms) ==
    /\ status # "running"
    /\ Len(heap) < MaxObjs
    /\ \E sym \in syms, x \in Operands, y \in Operands :
        /\ is_expression(x) \/ is_expression(y)
        /\ heap' = Append(heap, BinaryOperator(heap, sym, x, y))
        /\ built' = [sym |-> sym, arity |-> 2, addr |-> Len(heap) + 1, x |-> x, y |-> y]
    /\ Forget
    /\ UNCHANGED <<first, out, peer>>

\* auto e = sym x;  Expression<E>.
BuildUnary(syms) ==
    /\ status # "running"
    /\ Len(heap) < MaxObjs
    /\ \E sym \in syms, x \in ExprOperands :
        /\ heap' = Append(heap, UnaryOperator(heap, sym, x))
        /\ built' = [sym |-> sym, arity |-> 1, addr |-> Len(heap) + 1,
                      x |-> x, y |-> LiteralOperand(NoVal)]
    /\ Forget
    /\ UNCHANGED <<first, out, peer>>

\* One operator() activation: the nested expression at `path` below the callee,
\* the arguments it was called with and the results of its own nested
\* expressions obtained so far.
Frame(n, path, A) ==
    [path |-> path, args |-> A, got |-> [i \in 1..Len(n.kids) |-> NoVal]]
Top == stack[Len(stack)]
TopNode == NodeAt(heap, heap[callee], Top.path)
Pending(f) == {i \in 1..Len(f.got) : f.got[i] = NoVal}

\* e(args...) for the newest expression e.  A call that does not compile is no
\* run at all.
Call(lists) ==
    /\ status # "running"
    /\ heap[Len(heap)].kind # "Plain"
    /\ \E A \in lists :
        LET a == Len(heap) IN
        /\ callee' = a
        /\ args' = A
        /\ rets' = NoRets
        /\ result' = NoVal
        /\ IF Compiles(heap, heap[a], Types(A))
           THEN /\ status' = "running"
                /\ stack' = <<Frame(heap[a], <<>>, A)>>
                /\ entered' = << <<>> >>
           ELSE /\ status' = "ill_formed"
                /\ stack' = <<>>
                /\ entered' = <<>>
    /\ UNCHANGED <<heap, built, first, out, peer>>

\* std::forward<Args>(args)...: what a nested operator() receives.
Forward(A) == A
\* An operator() that calls itself where it should call its nested expression.
EnterSelf(i) ==
    /\ stack' = Append(stack, Frame(TopNode, Top.path, Forward(Top.args)))
    /\ entered' = Append(entered, Top.path)
    /\ UNCHANGED <<heap, built, callee, args, status, rets, result, first, out, peer>>
\* std::get<I>(tuple)(std::forward<Args>(args)...).
Enter(i) ==
    /\ stack' = Append(stack, Frame(Target(heap, TopNode.kids[i]), Append(Top.path, i),
                                    Forward(Top.args)))
    /\ entered' = Append(entered, Append(Top.path, i))
    /\ UNCHANGED <<heap, built, callee, args, status, rets, result, first, out, peer>>

\* An operation that accumulates into its first operand, a Constant stored in
\* the evaluated compound, through a reference that is not const.
AfterCallAccumulates(h, c, path, v) ==
    IF /\ path = <<>>
       /\ h[c].kind = "Compound"
       /\ ~h[c].kids[1].ref
       /\ h[c].kids[1].node.kind = "Constant"
    THEN [h EXCEPT ![c].kids[1].node.value = v]
    ELSE h
\* A Variable that keeps the argument substituted for it in a member of the
\* caller's object.
AfterCallBinds(h, c, path, v) ==
    IF /\ Len(path) = 1
       /\ h[c].kind = "Compound"
       /\ h[c].kids[path[1]].ref
       /\ h[h[c].kids[path[1]].addr].kind = "Variable"
    THEN [h EXCEPT ![h[c].kids[path[1]].addr].value = v]
    ELSE h
\* Every operator() of the library is a const member function (Constant,
\* Variable, Compound, Invoker) and the members are not mutable: the objects
\* are after the call what they were before it.
AfterCall(h, c, path, v) == h

\* return v: the activation ends and its caller receives v.
Return(v) ==
    /\ rets' = [p \in DOMAIN rets \cup {Top.path} |-> IF p = Top.path THEN v ELSE rets[p]]
    /\ IF Len(stack) = 1
       THEN /\ stack' = <<>>
            /\ status' = "done"
            /\ result' = v
       ELSE LET i == Top.path[Len(Top.path)]
                up == Len(stack) - 1
            IN /\ stack' = [SubSeq(stack, 1, up) EXCEPT ![up].got[i] = v]
               /\ UNCHANGED <<status, result>>
    /\ heap' = AfterCall(heap, callee, Top.path, v)
    /\ UNCHANGED <<built, callee, args, entered, first, out, peer>>

\* A Constant that answers with its first argument when it is given one.
ConstantCallUsesArgs(n, A) == IF Len(A) > 0 THEN A[1] ELSE n.value
\* Constant<T>::operator()(Args &&...): return value_.
ConstantCall(n, A) == n.value
EvalConstant ==
    /\ status = "running"
    /\ TopNode.kind = "Constant"
    /\ Return(ConstantCall(TopNode, Top.args))

\* A Variable that counts from the end of the argument list.
VariableCallFromEnd(n, A) == A[Len(A) + 1 - n.N]
\* Variable<N>::operator()(Args &&... args): std::get<N - 1> of the arguments.
VariableCall(n, A) == A[n.N]
EvalVariable ==
    /\ status = "running"
    /\ TopNode.kind = "Variable"
    /\ Return(VariableCall(TopNode, Top.args))

\* An Invoker that may call a nested expression again before it applies the
\* operation.
NextOperandsAgain(f) == 1..Len(f.got)
\* Invoker::eval, the arguments of op(...): the nested calls are the operands of
\* one function call, so C++ leaves the order in which they run to the build.
NextOperands(f) == Pending(f)
EvalNested ==
    /\ status = "running"
    /\ TopNode.kind = "Compound"
    /\ ~Lazy(TopNode.op)
    /\ \E i \in NextOperands(Top) : Enter(i)

\* An Invoker that applies the operation as soon as its first operand has a
\* value.
FirstEvaluated(f) == f.got[1] # NoVal
\* Invoker::eval: op(...) is called when each of its arguments, the nested
\* calls of the whole index sequence, has been evaluated.
AllEvaluated(f) == Pending(f) = {}
\* An Invoker that hands the results to op in reverse.
InvokerApplyReversed(op, got) == ApplyOp(op, [i \in 1..Len(got) |-> got[Len(got) + 1 - i]])
\* Invoker::eval: op(r1, ..., rk) once every operand has its value.
InvokerApply(op, got) == ApplyOp(op, got)
EvalApply ==
    /\ status = "running"
    /\ TopNode.kind = "Compound"
    /\ ~Lazy(TopNode.op)
    /\ AllEvaluated(Top)
    /\ Return(InvokerApply(TopNode.op, Top.got))

\* Invoker<std::logical_and>: if (!res1) return false;
\* Invoker<std::logical_or>:  if (res1) return true;
AndNeverDecided(res1) == FALSE
AndDecided(res1) == ~Truthy(res1)
\* The test of logical_and copied into logical_or.
OrDecidedAsAnd(res1) == ~Truthy(res1)
OrDecided(res1) == Truthy(res1)
\* An Invoker that takes every first result as the outcome.
DecidedAlways(op, res1) == TRUE
Decided(op, res1) == IF op = "logical_and" THEN AndDecided(res1) ELSE OrDecided(res1)

\* auto res1 = std::get<0>(tuple)(std::forward<Args>(args)...);
LazyFirst ==
    /\ status = "running"
    /\ TopNode.kind = "Compound"
    /\ Lazy(TopNode.op)
    /\ Top.got[1] = NoVal
    /\ Enter(1)

\* return false; (logical_and)   return true; (logical_or)
LazyShort ==
    /\ status = "running"
    /\ TopNode.kind = "Compound"
    /\ Lazy(TopNode.op)
    /\ Top.got[1] # NoVal
    /\ Top.got[2] = NoVal
    /\ Decided(TopNode.op, Top.got[1])
    /\ Return(BoolV(TopNode.op = "logical_or"))

\* auto res2 = std::get<1>(tuple)(std::forward<Args>(args)...);
LazySecond ==
    /\ status = "running"
    /\ TopNode.kind = "Compound"
    /\ Lazy(TopNode.op)
    /\ Top.got[1] # NoVal
    /\ Top.got[2] = NoVal
    /\ ~Decided(TopNode.op, Top.got[1])
    /\ Enter(2)

\* return operation(res1, res2);
LazyApply ==
    /\ status = "running"
    /\ TopNode.kind = "Compound"
    /\ Lazy(TopNode.op)
    /\ Top.got[1] # NoVal
    /\ Top.got[2] # NoVal
    /\ Return(ApplyOp(TopNode.op, Top.got))

\* The expression with every reference replaced by the object it refers to.
RECURSIVE Resolve(_, _)
Resolve(h, n) ==
    IF n.kind = "Compound"
    THEN [n EXCEPT !.kids = [i \in 1..Len(n.kids) |->
                                ValSlot(Resolve(h, Target(h, n.kids[i])))]]
    ELSE n

\* The caller keeps the outcome of a finished evaluation, as the examples
\* print it, to compare a later evaluation with: what the expression was, what
\* every operator() returned, and how many lines had been streamed by then.
Remember ==
    /\ status = "done"
    /\ first = NoFirst
    /\ first' = [addr |-> callee, tree |-> Resolve(heap, heap[callee]),
                 args |-> args, result |-> result,
                 rets |-> rets, lines |-> Len(out)]
    /\ UNCHANGED <<heap, built, callee, args, status, stack, entered, rets, result, out, peer>>

\* Compound<Op, decltype(e1), ...>(e1, ...) written out by the caller, as
\* prefixed_operator.cc does: every nested expression is stored as a copy.
\* CustomOperator (marked prefixed, registered as "?:"), XOR of
\* custom_operator.cc (registered as "^"), identity of compound.cc (no
\* to_string) and OneParameter; Nested... is any pack: printing never calls
\* the operation.  Compound<std::logical_and, ...> and Compound<std::logical_or,
\* ...> can be written out the same way with one or three nested expressions.
CustomOps == {"CustomOperator", "XOR", "identity", "OneParameter"}
CustomArities(op) ==
    CASE op = "CustomOperator" -> {1, 2, 3}
      [] op = "XOR" -> {3}
      [] op = "identity" -> {1}
      [] op = "OneParameter" -> {2, 3}
      [] op \in {"logical_and", "logical_or"} -> {1, 3}
BuildCompound(ops) ==
    /\ status # "running"
    /\ Len(heap) < MaxObjs
    /\ \E op \in ops :
        \E k \in CustomArities(op) : \E ks \in [1..k -> 1..Len(heap)] :
            /\ heap' = Append(heap, Compound(op, [i \in 1..k |-> ValSlot(heap[ks[i]])]))
            /\ built' = NoBuild
    /\ Forget
    /\ UNCHANGED <<first, out, peer>>

\* Compound<CustomOperator, decltype(condition), decltype(_1), decltype(_2)>
\* (condition, _1, _2) of example/prefixed_operator.cc: a declared expression
\* as the condition and two declared Variables, each stored as a copy.
BuildTernary ==
    /\ status # "running"
    /\ Len(heap) < MaxObjs
    /\ \E c \in {a \in 1..Len(heap) : heap[a].kind # "Plain"} :
        \E s1, s2 \in {a \in 1..Len(heap) : heap[a].kind = "Variable"} :
            heap' = Append(heap, Compound("CustomOperator",
                        <<ValSlot(heap[c]), ValSlot(heap[s1]), ValSlot(heap[s2])>>))
    /\ built' = NoBuild
    /\ Forget
    /\ UNCHANGED <<first, out, peer>>

\* A printer that takes the value out of every Constant stored in the compound
\* it prints.
AfterStreamClears(h, a) ==
    IF h[a].kind = "Compound"
    THEN [h EXCEPT ![a].kids =
            [i \in 1..Len(h[a].kids) |->
                IF ~h[a].kids[i].ref /\ h[a].kids[i].node.kind = "Constant"
                THEN ValSlot(Constant(IntV(0)))
                ELSE h[a].kids[i]]]
    ELSE h
\* Every operator<< of print.h takes the expression as a reference to const
\* and reads it through const members only: the objects are after the
\* statement what they were before it.
AfterStream(h, a) == h

\* std::cout << e << std::endl for a declared expression e.
StreamOut ==
    /\ status # "running"
    /\ Len(out) < MaxLines
    /\ \E a \in 1..Len(heap) :
        /\ out' = Append(out, IF Links(heap, heap[a])
                              THEN [addr |-> a, ok |-> TRUE, text |-> Stream(heap, heap[a])]
                              ELSE [addr |-> a, ok |-> FALSE, text |-> ""])
        /\ heap' = AfterStream(heap, a)
    /\ UNCHANGED <<built, callee, args, status, stack, entered, rets, result, first, peer>>

Evaluate ==
    \/ EvalConstant
    \/ EvalVariable
    \/ EvalNested
    \/ EvalApply
    \/ LazyFirst
    \/ LazyShort
    \/ LazySecond
    \/ LazyApply

\* The operators whose compounds the model evaluates.
EvalSyms == {"+", "-", "&&", "||"}
Next ==
    \/ Declare
    \/ BuildBinary(EvalSyms)
    \/ BuildUnary(UnarySyms)
    \/ Call(ArgLists)
    \/ Evaluate
Spec == Init /\ [][Next]_vars

\* Construction alone, with every operator of operations.h.
NextBuild ==
    \/ Declare
    \/ BuildBinary(BinarySyms)
    \/ BuildUnary(UnarySyms)
SpecBuild == Init /\ [][NextBuild]_vars

\* Printing: one or two named variables, the operators and the written-out
\* compounds built over them, and the lines streamed.
PrintSyms == {"+", "<"}
PrintOps == {"CustomOperator", "XOR"}
InitPrint ==
    /\ heap \in {<<Variable(1, "x")>>, <<Variable(1, "x"), Variable(2, "y")>>}
    /\ built = NoBuild
    /\ callee = 0
    /\ args = <<>>
    /\ status = "idle"
    /\ stack = <<>>
    /\ entered = <<>>
    /\ rets = NoRets
    /\ result = NoVal
    /\ first = NoFirst
    /\ out = <<>>
    /\ peer = NoThread
NextPrint ==
    \/ BuildBinary(PrintSyms)
    \/ BuildUnary(UnarySyms)
    \/ BuildCompound(PrintOps)
    \/ StreamOut
SpecPrint == InitPrint /\ [][NextPrint]_vars

\* Printing compounds of operations that lack a to_string or a default
\* template argument, alone and under operator+.
LinkSyms == {"+"}
LinkOps == {"identity", "OneParameter"}
NextLink ==
    \/ BuildBinary(LinkSyms)
    \/ BuildCompound(LinkOps)
    \/ StreamOut
SpecLink == InitPrint /\ [][NextLink]_vars

\* Printing what the operators of operations.h build, every one of them, and
\* declared constants and variables.
NextSymbols ==
    \/ Declare
    \/ BuildBinary(BinarySyms)
    \/ BuildUnary(UnarySyms)
    \/ StreamOut
SpecSymbols == Init /\ [][NextSymbols]_vars

\* Expressions over an int of the caller that changes between evaluations.
HolderSyms == {"+"}
NextHolder ==
    \/ DeclarePlain
    \/ Assign
    \/ BuildBinary(HolderSyms)
    \/ Call(ArgLists)
    \/ EvalConstant
    \/ EvalVariable
    \/ EvalNested
    \/ EvalApply
SpecHolder == Init /\ [][NextHolder]_vars

\* example/expression.cc: sum, difference and sum2 over _1 and _2, evaluated.
ExampleHeap ==
    LET h2 == <<Variable(1, DefaultName(1)), Variable(2, DefaultName(2))>>
        h3 == Append(h2, BinaryOperator(h2, "+", LvalueOperand(1), LvalueOperand(2)))
        h4 == Append(h3, BinaryOperator(h3, "-", LvalueOperand(1), LvalueOperand(2)))
    IN Append(h4, BinaryOperator(h4, "+", LvalueOperand(3), LvalueOperand(4)))
ExampleInts == {0 - 5, 0, 10}
ExampleLists == {<<IntV(a), IntV(b)>> : a \in ExampleInts, b \in ExampleInts}
InitExample ==
    /\ heap = ExampleHeap
    /\ built = NoBuild
    /\ callee = 0
    /\ args = <<>>
    /\ status = "idle"
    /\ stack = <<>>
    /\ entered = <<>>
    /\ rets = NoRets
    /\ result = NoVal
    /\ first = NoFirst
    /\ out = <<>>
    /\ peer = NoThread
NextExample ==
    \/ Call(ExampleLists)
    \/ EvalVariable
    \/ EvalNested
    \/ EvalApply
SpecExample == InitExample /\ [][NextExample]_vars

\* Evaluation of compounds of a caller's operation with three operands, beside
\* those of the operators.
CustomSyms == {"<", "&&"}
CustomUnary == {"!"}
NextCustom ==
    \/ BuildBinary(CustomSyms)
    \/ BuildUnary(CustomUnary)
    \/ BuildTernary
    \/ Call(ArgLists)
    \/ Evaluate
SpecCustom == Init /\ [][NextCustom]_vars

\* The processor passes from one thread to the other between any two steps
\* of either: the evaluation that was running is set aside as it is and the
\* other thread's is taken up where it was left.  The expression objects are
\* the same for both.
Switch ==
    /\ peer' = [callee |-> callee, args |-> args, status |-> status, stack |-> stack,
                entered |-> entered, rets |-> rets, result |-> result]
    /\ callee' = peer.callee
    /\ args' = peer.args
    /\ status' = peer.status
    /\ stack' = peer.stack
    /\ entered' = peer.entered
    /\ rets' = peer.rets
    /\ result' = peer.result
    /\ UNCHANGED <<heap, built, first, out>>

\* Two threads evaluating one expression: x and _2, a first operator expression
\* over them and the expression built of it, which both threads call with
\* argument lists of their own.
ThreadHeaps ==
    LET h2 == <<Variable(1, "x"), Variable(2, DefaultName(2))>>
        h3s == {Append(h2, BinaryOperator(h2, sym, LvalueOperand(1), y)) :
                    sym \in {"-", "&&"},
                    y \in {LvalueOperand(2), LiteralOperand(IntV(1))}}
    IN UNION {{Append(h3, BinaryOperator(h3, sym, LvalueOperand(3), LvalueOperand(2))) :
                    sym \in {"+", "||"}}
                \cup {Append(h3, BinaryOperator(h3, "+", LiteralOperand(IntV(1)),
                                                LvalueOperand(3)))} : h3 \in h3s}
ThreadLists == {A \in ArgLists : Len(A) = MaxArgs /\ \A i \in 1..Len(A) : A[i].t = "int"}
InitThreads ==
    /\ heap \in ThreadHeaps
    /\ built = NoBuild
    /\ callee = 0
    /\ args = <<>>
    /\ status = "idle"
    /\ stack = <<>>
    /\ entered = <<>>
    /\ rets = NoRets
    /\ result = NoVal
    /\ first = NoFirst
    /\ out = <<>>
    /\ peer = NoThread
NextThreads ==
    \/ Call(ThreadLists)
    \/ Evaluate
    \/ Switch
SpecThreads == InitThreads /\ [][NextThreads]_vars

\* Repeated evaluation: expressions of one eager and one lazy operator, called
\* with full lists of int arguments, an earlier outcome being kept.
RepeatSyms == {"-", "&&"}
RepeatLists == {A \in ArgLists : Len(A) = MaxArgs /\ \A i \in 1..Len(A) : A[i].t = "int"}
NextRepeat ==
    \/ BuildBinary(RepeatSyms)
    \/ Call(RepeatLists)
    \/ Evaluate
    \/ Remember
SpecRepeat == Init /\ [][NextRepeat]_vars

\* Evaluating and printing in any order the expressions of ThreadHeaps, called
\* with full lists of int arguments, an earlier outcome being kept.
NextFrame ==
    \/ Call(ThreadLists)
    \/ Evaluate
    \/ Remember
    \/ StreamOut
SpecFrame == InitThreads /\ [][NextFrame]_vars

\* One thread that, once it has called an expression, goes on executing until
\* the call returns: no step of an evaluation waits for anything.
NextLive ==
    \/ Call(ThreadLists)
    \/ Evaluate
SpecLive == InitThreads /\ [][NextLive]_vars /\ WF_vars(Evaluate)

\* Evaluation of what the operators build and of logical_and and logical_or
\* compounds written out with one or three nested expressions.
AritySyms == {"+", "&&"}
ArityOps == {"logical_and", "logical_or"}
NextArity ==
    \/ BuildBinary(AritySyms)
    \/ BuildCompound(ArityOps)
    \/ Call(ArgLists)
    \/ Evaluate
SpecArity == Init /\ [][NextArity]_vars

\* =================================================================== claims
Root == heap[callee]
At(p) == NodeAt(heap, Root, p)
Entered == {entered[k] : k \in 1..Len(entered)}
Returned == DOMAIN rets
Eager(n) == n.kind = "Compound" /\ ~Lazy(n.op)
LazyNode(n, op) == n.kind = "Compound" /\ n.op = op /\ Len(n.kids) = 2
KidResults(p) == [i \in 1..Len(At(p).kids) |-> rets[Append(p, i)]]

\* C1: whenever the operator() of a Constant has returned, whatever the
\* argument list of the evaluation (the empty one included), it returned the
\* value the Constant stores.
C1_ConstantReturnsValue ==
    \A p \in Returned : At(p).kind = "Constant" => rets[p] = At(p).value
\* A Constant nested in an expression has been evaluated with no arguments.
C1_Witness ==
    /\ status = "done"
    /\ args = <<>>
    /\ \E p \in Returned : p # <<>> /\ At(p).kind = "Constant"

\* C2: a Variable<N> that has returned was given at least N arguments and
\* returned the N-th of them, whatever its name, whichever instance it is and
\* whatever other variables the expression holds; a call of a Variable<N> with
\* fewer than N arguments does not compile, and with N or more it does.
C2_VariableReturnsNth ==
    /\ \A p \in Returned :
          At(p).kind = "Variable" =>
              At(p).N <= Len(args) /\ rets[p] = args[At(p).N]
    /\ (callee # 0 /\ Root.kind = "Variable") =>
          (status = "ill_formed" <=> Len(args) < Root.N)
\* Two instances of Variable<1> with different names have been evaluated in
\* one expression, with two arguments.
C2_Witness ==
    /\ status = "done"
    /\ Len(args) = 2 /\ args[1] # args[2]
    /\ \E p, q \in Returned :
          /\ At(p).kind = "Variable" /\ At(q).kind = "Variable"
          /\ At(p).N = At(q).N /\ At(p).name # At(q).name

\* The value of an expression by bottom-up composition: the operation applied
\* to the values of the nested expressions, all for the same arguments.
RECURSIVE Value(_, _, _)
Value(h, n, A) ==
    CASE n.kind = "Constant" -> n.value
      [] n.kind = "Variable" -> A[n.N]
      [] n.kind = "Compound" ->
            ApplyOp(n.op, [i \in 1..Len(n.kids) |-> Value(h, Target(h, n.kids[i]), A)])
RECURSIVE HasLazy(_, _)
HasLazy(h, n) ==
    /\ n.kind = "Compound"
    /\ \/ Lazy(n.op)
       \/ \E i \in 1..Len(n.kids) : HasLazy(h, Target(h, n.kids[i]))

\* C3: every compound of an operation other than logical_and and logical_or
\* that has returned had all its nested expressions evaluated, each with the
\* argument list of the whole evaluation, and returned the operation applied to
\* their results in order; an expression of such compounds alone returns its
\* bottom-up value.
C3_NestingLaw ==
    /\ \A p \in Returned :
          Eager(At(p)) =>
              /\ \A i \in 1..Len(At(p).kids) : Append(p, i) \in Returned
              /\ rets[p] = ApplyOp(At(p).op, KidResults(p))
    /\ \A k \in 1..Len(stack) : stack[k].args = args
    /\ (status = "done" /\ ~HasLazy(heap, Root)) => result = Value(heap, Root, args)
\* A difference whose second operand is itself a compound has returned, the
\* two operands having different values.
C3_Witness ==
    /\ status = "done"
    /\ Eager(Root) /\ Root.op = "minus"
    /\ Eager(At(<<2>>)) /\ Len(At(<<2>>).kids) = 2
    /\ rets[<<1>>] # rets[<<2>>]

\* C4: in a logical_and compound of two nested expressions, once the first has
\* returned a value that converts to false the second is not entered, and the
\* compound returns false.
C4_AndShortCircuit ==
    \A p \in Entered :
        (/\ LazyNode(At(p), "logical_and")
         /\ Append(p, 1) \in Returned
         /\ ~Truthy(rets[Append(p, 1)])) =>
            /\ Append(p, 2) \notin Entered
            /\ p \in Returned => rets[p] = BoolV(FALSE)
\* A logical_and whose first operand was false and whose second operand is a
\* compound has returned.
C4_Witness ==
    /\ status = "done"
    /\ \E p \in Returned :
          /\ LazyNode(At(p), "logical_and")
          /\ ~Truthy(rets[Append(p, 1)])
          /\ At(Append(p, 2)).kind = "Compound"

\* C5: in a logical_or compound of two nested expressions, once the first has
\* returned a value that converts to true the second is not entered, and the
\* compound returns true.
C5_OrShortCircuit ==
    \A p \in Entered :
        (/\ LazyNode(At(p), "logical_or")
         /\ Append(p, 1) \in Returned
         /\ Truthy(rets[Append(p, 1)])) =>
            /\ Append(p, 2) \notin Entered
            /\ p \in Returned => rets[p] = BoolV(TRUE)
\* A logical_or whose first operand was true and whose second operand is a
\* compound has returned.
C5_Witness ==
    /\ status = "done"
    /\ \E p \in Returned :
          /\ LazyNode(At(p), "logical_or")
          /\ Truthy(rets[Append(p, 1)])
          /\ At(Append(p, 2)).kind = "Compound"

\* C6: in a compound evaluated by the common-case Invoker a nested expression
\* is entered only after every nested expression to its left has returned, and
\* the compound returns only after all of them have.
C6_LeftToRight ==
    \A p \in Entered :
        Eager(At(p)) =>
            /\ \A i, j \in 1..Len(At(p).kids) :
                  (i < j /\ Append(p, j) \in Entered) => Append(p, i) \in Returned
            /\ p \in Returned => \A i \in 1..Len(At(p).kids) : Append(p, i) \in Returned

\* C7: a finished evaluation returns what an earlier finished evaluation with
\* the same argument list returned, whether that one ran on the same
\* expression object or on another expression built the same way, and whatever
\* was evaluated in between.
C7_Repeatable ==
    (/\ status = "done"
     /\ first # NoFirst
     /\ args = first.args
     /\ \/ callee = first.addr
        \/ Resolve(heap, Root) = first.tree) =>
        result = first.result
\* A second expression, built like the one whose outcome was kept, has been
\* evaluated with the same arguments.
C7_Witness ==
    /\ status = "done"
    /\ first # NoFirst
    /\ args = first.args
    /\ callee # first.addr
    /\ Resolve(heap, Root) = first.tree
    /\ HasLazy(heap, Root)

\* The operation the library documents for each binary operator.
DocumentedTag(sym) ==
    CASE sym = "+" -> "plus"
      [] sym = "-" -> "minus"
      [] sym = "*" -> "multiplies"
      [] sym = "/" -> "divides"
      [] sym = "==" -> "equal_to"
      [] sym = "!=" -> "not_equal_to"
      [] sym = "<" -> "less"
      [] sym = "<=" -> "less_equal"
      [] sym = ">" -> "greater"
      [] sym = ">=" -> "greater_equal"
      [] sym = "&&" -> "logical_and"
      [] sym = "||" -> "logical_or"
\* The nested expression a tuple element denotes is the operand x: the
\* expression itself, or a Constant holding the literal with its type.
Holds(slot, x) ==
    IF is_expression(x)
    THEN Target(heap, slot) = heap[x.addr]
    ELSE /\ ~slot.ref
         /\ slot.node.kind = "Constant"
         /\ slot.node.value = x.value
         /\ slot.node.value.t = x.value.t

RECURSIVE Indices(_, _)
Indices(h, n) ==
    CASE n.kind = "Variable" -> {n.N}
      [] n.kind = "Constant" -> {}
      [] n.kind = "Compound" ->
            UNION {Indices(h, Target(h, n.kids[i])) : i \in 1..Len(n.kids)}
MaxIndex(h, n) ==
    IF Indices(h, n) = {} THEN 0
    ELSE CHOOSE m \in Indices(h, n) : \A k \in Indices(h, n) : k <= m
\* The arguments the variables of the expression select are arithmetic.
Compatible(h, n, A) ==
    \A k \in Indices(h, n) : k <= Len(A) => Arithmetic(A[k].t)

\* C9: a call with fewer arguments than the largest variable index of the
\* expression does not compile: nothing is evaluated and no value is returned;
\* a call with at least that many arguments, of types the operations accept,
\* compiles.
C9_ArgumentCount ==
    callee # 0 =>
        /\ Len(args) < MaxIndex(heap, Root) =>
              /\ status = "ill_formed"
              /\ result = NoVal
              /\ entered = <<>>
              /\ rets = NoRets
        /\ (Len(args) >= MaxIndex(heap, Root) /\ Compatible(heap, Root, args)) =>
              status # "ill_formed"
\* An expression over Variable<1> and Variable<2> whose left operand needs one
\* argument only was called with one int argument and did not compile.
C9_Witness ==
    /\ status = "ill_formed"
    /\ Len(args) = 1
    /\ args[1].t = "int"
    /\ Root.kind = "Compound" /\ Len(Root.kids) = 2
    /\ MaxIndex(heap, Target(heap, Root.kids[1])) = 1
    /\ MaxIndex(heap, Target(heap, Root.kids[2])) = 2

\* A compound of an arithmetic operation has a variable operand whose argument
\* is a UDT.
RECURSIVE Mismatch(_, _, _)
Mismatch(h, n, A) ==
    /\ n.kind = "Compound"
    /\ \E i \in 1..Len(n.kids) :
          LET k == Target(h, n.kids[i]) IN
          \/ k.kind = "Variable" /\ k.N <= Len(A) /\ A[k.N].t = "UDT"
          \/ Mismatch(h, k, A)

\* What holds of every state: the literal kept with its type, the mismatched
\* call rejected, the finished evaluation returning the bottom-up value.
C10_State ==
    /\ (built.arity = 2 /\ built.y.cat = "literal") =>
          /\ Target(heap, heap[built.addr].kids[2]) = Constant(built.y.value)
          /\ ResultType(heap, Target(heap, heap[built.addr].kids[2]), <<>>) = built.y.value.t
    /\ (built.arity = 2 /\ built.x.cat = "literal") =>
          /\ Target(heap, heap[built.addr].kids[1]) = Constant(built.x.value)
          /\ ResultType(heap, Target(heap, heap[built.addr].kids[1]), <<>>) = built.x.value.t
    /\ (callee # 0 /\ Mismatch(heap, Root, args)) => status = "ill_formed"
    /\ (status = "done" /\ ~HasLazy(heap, Root)) => result = Value(heap, Root, args)
\* What holds of every step out of a call that did not compile.
C10_Step ==
    (/\ status = "ill_formed"
     /\ status' # "idle"
     /\ heap' = heap
     /\ callee' = callee
     /\ Len(args') >= MaxIndex(heap, Root)
     /\ Compatible(heap, Root, args')) => status' = "running"
\* C10: the Constant an operator makes of a literal holds the literal with
\* its own type; a call that gives a UDT to an operation beside it does not
\* compile; and after a call that did not compile, a call of the same
\* expression with enough arithmetic arguments compiles, and every finished
\* evaluation of eager compounds returns the bottom-up value.
C10_NoConversion == [](C10_State) /\ [][C10_Step]_vars
\* a + 1 was called with a UDT and did not compile.
C10_Witness ==
    /\ status = "ill_formed"
    /\ Len(args) = 1
    /\ args[1].t = "UDT"
    /\ Root.kind = "Compound" /\ Root.op = "plus"
    /\ Target(heap, Root.kids[1]).kind = "Variable"
    /\ Target(heap, Root.kids[2]) = Constant(IntV(1))

\* The lines streamed, the expression each one printed and the texts of that
\* expression's nested expressions.
Lines == 1..Len(out)
Shown(i) == heap[out[i].addr]
KidText(i, k) == Stream(heap, Target(heap, Shown(i).kids[k]))
Arity(i) == IF Shown(i).kind = "Compound" THEN Len(Shown(i).kids) ELSE 0
Sym(i) == print_to_string(Shown(i).op)

\* C11: the text printed for a compound of two nested expressions is
\* symbol(child1, child2) when its operation is marked prefixed, and
\* child1 symbol child2, with one space on each side of the symbol, otherwise.
C11_BinaryText ==
    \A i \in Lines : (out[i].ok /\ Arity(i) = 2) =>
        out[i].text = IF prefixed(Shown(i).op)
                      THEN Sym(i) \o "(" \o KidText(i, 1) \o ", " \o KidText(i, 2) \o ")"
                      ELSE KidText(i, 1) \o " " \o Sym(i) \o " " \o KidText(i, 2)
\* Both forms were printed: x + ... in infix form with a compound operand, and
\* a two-operand CustomOperator in prefix form.
C11_Witness ==
    \E i, j \in Lines :
        /\ out[i].ok /\ Arity(i) = 2 /\ ~prefixed(Shown(i).op)
        /\ Target(heap, Shown(i).kids[2]).kind = "Compound"
        /\ out[j].ok /\ Arity(j) = 2 /\ prefixed(Shown(j).op)

\* C12: the text printed for a compound of one nested expression is
\* symbol(child) when its operation is marked prefixed, and the symbol
\* directly followed by the child otherwise: -x for unary minus over the
\* variable named x, not x for its logical negation.
C12_UnaryText ==
    \A i \in Lines : (out[i].ok /\ Arity(i) = 1) =>
        /\ out[i].text = IF prefixed(Shown(i).op)
                         THEN Sym(i) \o "(" \o KidText(i, 1) \o ")"
                         ELSE Sym(i) \o KidText(i, 1)
        /\ Target(heap, Shown(i).kids[1]) = Variable(1, "x") =>
              /\ Shown(i).op = "negate" => out[i].text = "-x"
              /\ Shown(i).op = "logical_not" => out[i].text = "not x"
\* -x and a one-operand CustomOperator were printed.
C12_Witness ==
    \E i, j \in Lines :
        /\ out[i].ok /\ Arity(i) = 1 /\ Shown(i).op = "negate"
        /\ Target(heap, Shown(i).kids[1]) = Variable(1, "x")
        /\ out[j].ok /\ Arity(j) = 1 /\ prefixed(Shown(j).op)

\* C13: the text printed for a compound of three nested expressions is
\* symbol(child1, child2, child3), whether or not the operation is marked
\* prefixed; CustomOperator over (x < y, x, y) prints ?:(x < y, x, y).
C13_GeneralText ==
    \A i \in Lines : (out[i].ok /\ Arity(i) = 3) =>
        /\ out[i].text = Sym(i) \o "(" \o KidText(i, 1) \o ", " \o KidText(i, 2)
                                \o ", " \o KidText(i, 3) \o ")"
        /\ (/\ Shown(i).op = "CustomOperator"
            /\ KidText(i, 1) = "x < y" /\ KidText(i, 2) = "x" /\ KidText(i, 3) = "y") =>
              out[i].text = "?:(x < y, x, y)"
\* A CustomOperator over a comparison and two variables, and a three-operand
\* compound of an operation that is not marked prefixed, were printed.
C13_Witness ==
    \E i, j \in Lines :
        /\ out[i].ok /\ Arity(i) = 3 /\ Shown(i).op = "CustomOperator"
        /\ Target(heap, Shown(i).kids[1]).kind = "Compound"
        /\ Target(heap, Shown(i).kids[1]).op = "less"
        /\ out[j].ok /\ Arity(j) = 3 /\ ~prefixed(Shown(j).op)

\* C14: a printed Constant is the decimal text of its value; a printed
\* Variable is its name: the name given to the constructor, or _N for a
\* Variable<N> constructed without one.
C14_LeafText ==
    \A i \in Lines :
        /\ Shown(i).kind = "Constant" =>
              out[i].ok /\ out[i].text = to_string(Shown(i).value.v)
        /\ Shown(i).kind = "Variable" =>
              /\ out[i].ok /\ out[i].text = Shown(i).name
              /\ out[i].addr = 1 => out[i].text = "x"
              /\ out[i].addr = 2 => out[i].text = "_2"
\* A named variable and a declared Constant were printed.
C14_Witness ==
    \E i, j \in Lines :
        /\ Shown(i).kind = "Variable" /\ out[i].addr = 1
        /\ Shown(j).kind = "Constant" /\ Shown(j).value = IntV(1)

\* The leaves of an expression from left to right, and its operations.
RECURSIVE Leaves(_, _)
Leaves(h, n) ==
    IF n.kind # "Compound" THEN <<n>>
    ELSE IF Len(n.kids) = 1 THEN Leaves(h, Target(h, n.kids[1]))
    ELSE IF Len(n.kids) = 2
         THEN Leaves(h, Target(h, n.kids[1])) \o Leaves(h, Target(h, n.kids[2]))
    ELSE Leaves(h, Target(h, n.kids[1])) \o Leaves(h, Target(h, n.kids[2]))
            \o Leaves(h, Target(h, n.kids[3]))
RECURSIVE Tags(_, _)
Tags(h, n) ==
    IF n.kind # "Compound" THEN {}
    ELSE {n.op} \cup UNION {Tags(h, Target(h, n.kids[k])) : k \in 1..Len(n.kids)}

\* C15: two printed expressions that are different trees over the same leaves
\* and the same operations have different texts.
C15_Bracketed ==
    \A i, j \in Lines :
        (/\ out[i].ok /\ out[j].ok
         /\ Resolve(heap, Shown(i)) # Resolve(heap, Shown(j))
         /\ Leaves(heap, Shown(i)) = Leaves(heap, Shown(j))
         /\ Tags(heap, Shown(i)) = Tags(heap, Shown(j))) =>
            out[i].text # out[j].text

\* The symbol the library documents for the operation of each operator.
DocumentedSymbol(op) ==
    CASE op = "plus" -> "+"
      [] op = "minus" -> "-"
      [] op = "multiplies" -> "*"
      [] op = "divides" -> "/"
      [] op = "equal_to" -> "=="
      [] op = "not_equal_to" -> "!="
      [] op = "less" -> "<"
      [] op = "less_equal" -> "<="
      [] op = "greater" -> ">"
      [] op = "greater_equal" -> ">="
      [] op = "logical_and" -> "&&"
      [] op = "logical_or" -> "||"
      [] op = "logical_not" -> "not "
      [] op = "negate" -> "-"

\* C19: the operation of every operator of operations.h has a to_string entry
\* with the documented symbol (a binary operator's own spelling, "not " for !,
\* "-" for unary -) and is not marked prefixed: what a binary operator built
\* prints as child1 symbol child2, what a unary one built as symbol child.
C19_StandardEntries ==
    /\ \A sym \in BinarySyms :
          /\ OperatorTag(sym) \in Registered
          /\ print_to_string(OperatorTag(sym)) = sym
          /\ ~prefixed(OperatorTag(sym))
    /\ \A sym \in UnarySyms :
          /\ UnaryTag(sym) \in Registered
          /\ print_to_string(UnaryTag(sym)) = (IF sym = "!" THEN "not " ELSE "-")
          /\ ~prefixed(UnaryTag(sym))
    /\ \A i \in Lines : Arity(i) > 0 =>
          /\ out[i].ok
          /\ Arity(i) = 2 =>
                out[i].text = KidText(i, 1) \o " " \o DocumentedSymbol(Shown(i).op)
                                  \o " " \o KidText(i, 2)
          /\ Arity(i) = 1 =>
                out[i].text = DocumentedSymbol(Shown(i).op) \o KidText(i, 1)
\* A logical negation and a <= comparison were printed.
C19_Witness ==
    \E i, j \in Lines :
        /\ out[i].ok /\ Shown(i).op = "logical_not"
        /\ out[j].ok /\ Shown(j).op = "less_equal"

\* C20: the program printing an expression builds exactly when every
\* operation in the expression, at any depth, has a to_string entry.
C20_MissingEntryOnly ==
    \A i \in Lines : out[i].ok <=> Tags(heap, Shown(i)) \subseteq Registered

\* C16: every nested expression of every compound the operators built is an
\* object of the compound itself, never a reference to an object of the caller.
C16_OwnedByValue ==
    \A a \in 1..Len(heap) :
        heap[a].kind = "Compound" =>
            \A k \in 1..Len(heap[a].kids) : ~heap[a].kids[k].ref

\* C17: in a finished evaluation of the newest operator expression, the
\* Constant made of a non-expression operand returned the value the operand
\* had when the operator ran, whatever the caller assigned to it since.
C17_HolderFixed ==
    (status = "done" /\ built.arity = 2 /\ callee = built.addr) =>
        /\ ~is_expression(built.x) => rets[<<1>>] = built.x.value
        /\ ~is_expression(built.y) => rets[<<2>>] = built.y.value

\* C18 as stated: sum2(10, -5) returns 10.
C18_Returns10 ==
    (status = "done" /\ args = <<IntV(10), IntV(0 - 5)>>) => result = IntV(10)
\* C18: sum2 = (_1 + _2) + (_1 - _2) of example/expression.cc called with
\* (10, -5) returns 20: the sum of 10 + -5 = 5 and 10 - -5 = 15.
C18_Returns20 ==
    (status = "done" /\ args = <<IntV(10), IntV(0 - 5)>>) => result = IntV(20)
\* sum2(10, -5) has finished, its operands having returned 5 and 15.
C18_Witness ==
    /\ status = "done"
    /\ args = <<IntV(10), IntV(0 - 5)>>
    /\ Root.op = "plus" /\ At(<<1>>).op = "plus" /\ At(<<2>>).op = "minus"
    /\ rets[<<1>>] = IntV(5) /\ rets[<<2>>] = IntV(15)

\* What holds of every state of two threads evaluating one expression: every
\* operator() that has returned in either thread returned the bottom-up value
\* of its expression for that thread's own arguments, and so did every
\* finished evaluation.
C21_State ==
    /\ callee # 0 =>
          /\ \A p \in Returned : rets[p] = Value(heap, At(p), args)
          /\ status = "done" => result = Value(heap, Root, args)
    /\ peer.callee # 0 =>
          /\ \A p \in DOMAIN peer.rets :
                peer.rets[p] = Value(heap, NodeAt(heap, heap[peer.callee], p), peer.args)
          /\ peer.status = "done" => peer.result = Value(heap, heap[peer.callee], peer.args)
\* C21: under every interleaving of the steps of two threads that evaluate
\* the same expression with argument lists of their own, each evaluation
\* returns what it returns when run alone, and no step changes an expression
\* object.
C21_ThreadSafe == [](C21_State) /\ [][heap' = heap]_vars
\* Both threads are in the middle of evaluating the same expression with
\* different arguments, each having obtained a result that the other has not.
C21_Witness ==
    /\ status = "running" /\ peer.status = "running"
    /\ callee = peer.callee
    /\ args # peer.args
    /\ \E p \in Returned : p \notin DOMAIN peer.rets
    /\ \E p \in DOMAIN peer.rets : p \notin Returned \/ rets[p] # peer.rets[p]

\* C22: every compound that has returned and is not a logical_and or
\* logical_or of two nested expressions, whatever its operation and the number
\* of its nested expressions, had every nested expression evaluated, whatever
\* the first of them returned.
C22_OnlyLazyShortCircuits ==
    \A p \in Returned :
        (At(p).kind = "Compound" /\ ~(Lazy(At(p).op) /\ Len(At(p).kids) = 2)) =>
            \A i \in 1..Len(At(p).kids) : Append(p, i) \in Returned
\* A CustomOperator compound whose condition was false, so that its second
\* operand was not needed, has returned beside a negation of a false operand.
C22_Witness ==
    /\ status = "done"
    /\ \E p \in Returned :
          /\ At(p).op = "CustomOperator"
          /\ Len(At(p).kids) = 3
          /\ ~Truthy(rets[Append(p, 1)])
          /\ Append(p, 2) \in Returned
          /\ Append(p, 3) \in Returned
          /\ rets[Append(p, 2)] # rets[Append(p, 3)]
          /\ rets[p] = rets[Append(p, 3)]

\* The first result leaves the outcome open: true for logical_and, false for
\* logical_or.
Undecided(op, r) == IF op = "logical_and" THEN Truthy(r) ELSE ~Truthy(r)
\* C23: a logical_and or logical_or of two nested expressions that has
\* returned after a first result that leaves the outcome open had its second
\* nested expression evaluated and returned the operation applied to both
\* results; and every operator() that has returned, short-circuited or not,
\* returned the value that evaluating both nested expressions and applying
\* the operation gives.
C23_LazyAgreesWithDefault ==
    /\ \A p \in Returned :
          (/\ At(p).kind = "Compound" /\ Lazy(At(p).op) /\ Len(At(p).kids) = 2
           /\ Undecided(At(p).op, rets[Append(p, 1)])) =>
              /\ Append(p, 2) \in Returned
              /\ rets[p] = ApplyOp(At(p).op, KidResults(p))
    /\ \A p \in Returned : rets[p] = Value(heap, At(p), args)
\* A logical_or whose first operand was false and whose second was true, and
\* a logical_and whose first operand was true, have returned in one
\* evaluation.
C23_Witness ==
    /\ status = "done"
    /\ \E p, q \in Returned :
          /\ LazyNode(At(p), "logical_or")
          /\ ~Truthy(rets[Append(p, 1)])
          /\ Append(p, 2) \in Returned /\ Truthy(rets[Append(p, 2)])
          /\ rets[p] = BoolV(TRUE)
          /\ LazyNode(At(q), "logical_and")
          /\ Truthy(rets[Append(q, 1)])
          /\ Append(q, 2) \in Returned

\* What holds of every state after an outcome was kept: in every later
\* evaluation of the same expression object with the same arguments the
\* expression is, reference by reference, what it was, every operator() that
\* has returned returned what it returned then, and so did the evaluation.
C24_State ==
    (/\ first # NoFirst
     /\ status \in {"running", "done"}
     /\ callee = first.addr
     /\ args = first.args) =>
        /\ Resolve(heap, Root) = first.tree
        /\ \A p \in Returned \cap DOMAIN first.rets : rets[p] = first.rets[p]
        /\ status = "done" => result = first.result
\* What holds of every step that begins an evaluation, is one of its steps, or
\* prints an expression: no expression object changes.
C24_Step ==
    (Call(ThreadLists) \/ Evaluate \/ StreamOut) => heap' = heap
\* C24: evaluating and printing leave every expression object as it was: the
\* operation, number and targets of the nested expressions of every compound,
\* the value of every Constant, the index and name of every Variable; and an
\* evaluation after an expression was printed returns what the same
\* evaluation returned before.
C24_Frame == [](C24_State) /\ [][C24_Step]_vars
\* The expression whose outcome was kept has since been printed and is being
\* evaluated again with the same arguments: all its operands have returned.
C24_Witness ==
    /\ first # NoFirst
    /\ Len(out) > first.lines
    /\ out[Len(out)].addr = first.addr /\ out[Len(out)].ok
    /\ status = "running"
    /\ callee = first.addr
    /\ args = first.args
    /\ Len(stack) = 1
    /\ Root.kind = "Compound"
    /\ \A i \in 1..Len(Root.kids) : <<i>> \in Returned
    /\ \E i \in 1..Len(Root.kids) :
          ~Root.kids[i].ref /\ Root.kids[i].node.kind = "Constant"

\* The nesting depth of an expression: 1 for a Constant or a Variable, one
\* more than the deepest nested expression for a compound.
RECURSIVE Height(_, _)
Height(h, n) ==
    IF n.kind = "Compound"
    THEN LET hs == {Height(h, Target(h, n.kids[i])) : i \in 1..Len(n.kids)}
         IN 1 + (CHOOSE m \in hs : \A k \in hs : k <= m)
    ELSE 1
\* What holds of the stack of operator() activations: each is the call of a
\* nested expression of the one below it, none is above the call of a
\* Constant or a Variable, and there are never more of them than the
\* expression is deep.
C25_Bounded ==
    status = "running" =>
        /\ stack[1].path = <<>>
        /\ \A k \in 2..Len(stack) :
              /\ Len(stack[k].path) = k - 1
              /\ SubSeq(stack[k].path, 1, k - 2) = stack[k - 1].path
              /\ At(stack[k - 1].path).kind = "Compound"
              /\ stack[k].path[k - 1] \in 1..Len(At(stack[k - 1].path).kids)
        /\ Len(stack) <= Height(heap, Root)
\* C25: every evaluation that has begun finishes, and while it runs its
\* calls descend from an expression into its nested expressions only, end at
\* Constants and Variables, and are never nested deeper than the expression.
C25_Terminates == [](C25_Bounded) /\ (status = "running" ~> status = "done")
\* The evaluation of an expression of depth three has finished, an innermost
\* operand having been evaluated.
C25_Witness ==
    /\ status = "done"
    /\ Height(heap, Root) = 3
    /\ \E p \in Returned : Len(p) = 2

\* C26: a call of a logical_and or logical_or of two nested expressions
\* whose second nested expression holds a Variable with an index larger than
\* the number of arguments does not compile, whatever the arguments are:
\* nothing is evaluated, the first nested expression included.
C26_NoMasking ==
    (/\ callee # 0
     /\ Root.kind = "Compound" /\ Lazy(Root.op) /\ Len(Root.kids) = 2
     /\ MaxIndex(heap, Target(heap, Root.kids[2])) > Len(args)) =>
        /\ status = "ill_formed"
        /\ entered = <<>>
        /\ rets = NoRets
        /\ result = NoVal
\* x && e, where e holds Variable<2>, was called with the one argument 0,
\* which makes the first operand false, and did not compile.
C26_Witness ==
    /\ status = "ill_formed"
    /\ args = <<IntV(0)>>
    /\ LazyNode(Root, "logical_and")
    /\ Target(heap, Root.kids[1]).kind = "Variable"
    /\ Target(heap, Root.kids[1]).N = 1
    /\ MaxIndex(heap, Target(heap, Root.kids[2])) = 2

\* How many times the operator() of the nested expression at path q was
\* entered in the evaluation.
Times(q) == Cardinality({k \in 1..Len(entered) : entered[k] = q})
\* C27: in one evaluation no nested expression of any compound is entered
\* twice; a compound of the common-case Invoker that has returned had each
\* nested expression entered exactly once; a logical_and or logical_or that
\* has returned had its first nested expression entered exactly once and its
\* second at most once.
C27_Once ==
    /\ \A k, l \in 1..Len(entered) : k # l => entered[k] # entered[l]
    /\ \A p \in Returned :
          /\ Eager(At(p)) => \A i \in 1..Len(At(p).kids) : Times(Append(p, i)) = 1
          /\ (At(p).kind = "Compound" /\ Lazy(At(p).op)) =>
                /\ Times(Append(p, 1)) = 1
                /\ Times(Append(p, 2)) <= 1
\* e - e, both operands being the same logical_and object of the caller, has
\* returned: the object was evaluated once for each operand.
C27_Witness ==
    /\ status = "done"
    /\ Eager(Root) /\ Len(Root.kids) = 2
    /\ Root.kids[1].ref /\ Root.kids[1] = Root.kids[2]
    /\ Lazy(At(<<1>>).op)
    /\ Times(<<1>>) = 1 /\ Times(<<2>>) = 1
    /\ Times(<<1, 1>>) = 1 /\ Times(<<2, 1>>) = 1

\* The expression holds, at some depth, a logical_and or logical_or compound
\* that does not have exactly two nested expressions.
RECURSIVE OddLazy(_, _)
OddLazy(h, n) ==
    /\ n.kind = "Compound"
    /\ \/ Lazy(n.op) /\ Len(n.kids) # 2
       \/ \E i \in 1..Len(n.kids) : OddLazy(h, Target(h, n.kids[i]))
\* C28: a call of an expression that is, or holds, a logical_and or
\* logical_or compound of one or of three nested expressions does not compile,
\* whatever the arguments: nothing is evaluated and nothing is returned.
C28_TwoOnly ==
    (callee # 0 /\ OddLazy(heap, Root)) =>
        /\ status = "ill_formed"
        /\ entered = <<>>
        /\ rets = NoRets
        /\ result = NoVal
\* A logical_and of three Variables was called with two int arguments, which
\* every one of its nested expressions accepts, and did not compile.
C28_Witness ==
    /\ status = "ill_formed"
    /\ Root.kind = "Compound" /\ Root.op = "logical_and" /\ Len(Root.kids) = 3
    /\ \A i \in 1..3 : Target(heap, Root.kids[i]).kind = "Variable"
    /\ Len(args) = 2 /\ \A i \in 1..2 : args[i].t = "int"

====
